---- MODULE Spec2Model ----
(***************************************************************************)
(* A state-machine model of the code connection visualizer:                *)
(*   CodeVisualizer (selection state machine, connection list, documents,  *)
(*   prompts), PaneManager (panes, layouts) and the part of TextRenderer   *)
(*   that keeps the per-document bounds index.                             *)
(*                                                                         *)
(* Geometry is abstracted: a pointer event carries what the coordinate     *)
(* queries of the handlers resolve to (a tab, a connection, a character or *)
(* nothing), restricted to the answers the stored layouts and bounds can   *)
(* give.  A document's content is the sequence of its line lengths, and a  *)
(* rendered document's bounds index holds every character of the content   *)
(* (the pane is taken to be large enough to show the document).            *)
(***************************************************************************)
EXTENDS Integers, Sequences, FiniteSets, TLC

VARIABLES
    \* ---- CodeVisualizer ----
    codeFiles,            \* Map<string, CodeFile>: file id -> content, NoDoc when absent
    fileLayouts,          \* Map<string, FileLayout>: the file ids that have a layout
    linesKind,            \* the kind of JS value held by this.connectionLines
    connectionLines,      \* the elements of this.connectionLines when it is an array
    lastUsedSettings,     \* default color / style / width of new connections
    activeFileId,
    isSelecting,
    selectionStart,       \* CharacterBounds | null
    selectionEnd,         \* CharacterBounds | null
    currentSelection,     \* live selection
    pendingSelection,     \* most recently finalized selection
    firstSelection,       \* anchor selection
    sameObject,           \* firstSelection and pendingSelection are one object
    isCreatingConnection,
    selectedConnection,   \* reference to a connection object, or Null
    currentPrompt,        \* the floating prompt that is open, or Null
    \* ---- PaneManager ----
    panes,                \* Map<string, EditorPane> in insertion order
    paneLayouts,          \* Map<string, PaneLayout>: the pane ids that have a layout
    activePaneId,
    layoutMode,
    canvasWidth,
    canvasHeight,
    \* ---- TextRenderer ----
    fileBounds,           \* Map<string, CharacterBounds[][]>: file id -> rendered content
    \* ---- callers ----
    exported,             \* the string last returned by exportConnections()
    probe,                \* the last geometry query and its answer
    threw                 \* the last handler ended with an uncaught exception

cvVars == <<codeFiles, fileLayouts, linesKind, connectionLines, lastUsedSettings,
            activeFileId, isSelecting, selectionStart, selectionEnd,
            currentSelection, pendingSelection, firstSelection, sameObject,
            isCreatingConnection, selectedConnection, currentPrompt>>
pmVars == <<panes, paneLayouts, activePaneId, layoutMode, canvasWidth,
            canvasHeight>>
vars == <<cvVars, pmVars, fileBounds, exported, probe, threw>>

(***************************************************************************)
(* Bounds of the model.                                                    *)
(***************************************************************************)
MaxConns == 2        \* connections are created while the list is shorter
MaxPanes == 3        \* panes are created while fewer pane ids were handed out

(***************************************************************************)
(* Values.                                                                 *)
(***************************************************************************)
Null == [nil |-> TRUE]          \* JS null / undefined reference
NoFile == "none"                \* a null / undefined file id
NoPane == 0                     \* a null pane id (pane ids are 1, 2, ...)
Files == {"f1", "f2"}
NoDoc == <<>>                   \* no document stored under a file id
SmallDoc == <<1>>               \* one line of one character
BigDoc == <<2, 2>>              \* two lines of two characters
LayoutModes == {"auto", "single", "split-horizontal", "split-vertical", "grid"}

\* The characters of a document content: (lineIndex, charIndex) pairs.
CharPositions == [lineIndex : 0..1, charIndex : 0..1]
CharsOf(doc) ==
    {ch \in CharPositions :
        /\ ch.lineIndex < Len(doc)
        /\ ch.charIndex < doc[ch.lineIndex + 1]}

Min(a, b) == IF a <= b THEN a ELSE b
Max(a, b) == IF a >= b THEN a ELSE b

(***************************************************************************)
(* PaneManager, as operations on a snapshot W of the fields that the pane  *)
(* operations and the callbacks they trigger read and write:               *)
(*   panes, paneLayouts, activePaneId, layoutMode, canvasWidth,            *)
(*   canvasHeight (PaneManager); codeFiles, fileLayouts, linesKind,        *)
(*   connectionLines (CodeVisualizer); fileBounds (TextRenderer); threw.   *)
(* Once W.threw is set the exception is propagating and nothing more runs. *)
(***************************************************************************)

PaneIdsOf(ps) == {ps[i].id : i \in DOMAIN ps}
PaneIndex(ps, id) == CHOOSE i \in DOMAIN ps : ps[i].id = id

\* Array.prototype.sort((a, b) => a.order - b.order): a stable sort by order.
RECURSIVE SortByOrder(_)
SortByOrder(ps) ==
    IF Len(ps) <= 1 THEN ps
    ELSE LET rest == SortByOrder(Tail(ps))
             h == Head(ps)
             before == SelectSeq(rest, LAMBDA p : p.order < h.order)
             after == SelectSeq(rest, LAMBDA p : p.order >= h.order)
         IN before \o <<h>> \o after

\* getPanes()
GetPanes(ps) == SortByOrder(ps)

\* render(): every loaded file that has a layout is rendered and its bounds
\* index replaced; then the connection lines are drawn.
RenderBounds(cf, fl, fb) ==
    [f \in Files |-> IF cf[f] # NoDoc /\ f \in fl THEN cf[f] ELSE fb[f]]

\* renderConnectionLines(): for..of over a value that is not iterable throws, and
\* so does drawing an element that has no start / end selection.
RenderThrows(kind, list) ==
    \/ kind # "array"
    \/ \E i \in DOMAIN list : list[i].kind = "junk"

Render(W) ==
    [W EXCEPT !.fileBounds = RenderBounds(W.codeFiles, W.fileLayouts, W.fileBounds),
              !.threw = RenderThrows(W.linesKind, W.connectionLines)]

\* updateFileLayoutsFromPanes()
FileLayoutsFromPanes(ps, pl) ==
    {ps[i].fileId : i \in {j \in DOMAIN ps : ps[j].id \in pl /\ ps[j].fileId # NoFile}}

UpdateFileLayoutsFromPanes(W) ==
    [W EXCEPT !.fileLayouts = FileLayoutsFromPanes(W.panes, W.paneLayouts)]

\* The callbacks registered by setupPaneManager (onPaneChange / onLayoutChange).
PaneCallback(W) == Render(UpdateFileLayoutsFromPanes(W))
NotifyPaneChange(W) == PaneCallback(W)
NotifyLayoutChange(W) == PaneCallback(W)

\* calculateSingleLayout: only the active pane gets a rectangle.
CalculateSingleLayout(ps, active) == IF active = NoPane THEN {} ELSE {active}
\* the split and grid layouts give every pane a rectangle.
CalculateAllPanesLayout(ps) == PaneIdsOf(ps)
CalculateAutoLayout(ps, active) ==
    IF Len(ps) = 1 THEN CalculateSingleLayout(ps, active)
    ELSE CalculateAllPanesLayout(ps)

LayoutDomain(ps, active, mode) ==
    IF mode = "single" THEN CalculateSingleLayout(ps, active)
    ELSE IF mode = "auto" THEN CalculateAutoLayout(ps, active)
    ELSE CalculateAllPanesLayout(ps)

CalculateLayouts(W) ==
    IF W.canvasWidth = 0 \/ W.canvasHeight = 0 THEN W
    ELSE IF Len(W.panes) = 0 THEN [W EXCEPT !.paneLayouts = {}]
    ELSE NotifyLayoutChange(
            [W EXCEPT !.paneLayouts = LayoutDomain(W.panes, W.activePaneId, W.layoutMode)])

\* this.calculateLayouts(); this.notifyPaneChange(); an exception thrown by a
\* callback ends the sequence
LayoutsThenNotify(W) ==
    IF W.threw THEN W
    ELSE LET W1 == CalculateLayouts(W)
         IN IF W1.threw THEN W1 ELSE NotifyPaneChange(W1)

\* A setActivePane that does not deactivate the other panes.
SetActivePaneKeepsOthers(W, id) ==
    IF id \notin PaneIdsOf(W.panes) THEN W
    ELSE NotifyPaneChange(
            [W EXCEPT !.panes = [i \in DOMAIN W.panes |->
                                    [W.panes[i] EXCEPT
                                        !.isActive = @ \/ (W.panes[i].id = id)]],
                      !.activePaneId = id])

SetActivePane(W, id) ==
    IF id \notin PaneIdsOf(W.panes) THEN W
    ELSE NotifyPaneChange(
            [W EXCEPT !.panes = [i \in DOMAIN W.panes |->
                                    [W.panes[i] EXCEPT !.isActive = (W.panes[i].id = id)]],
                      !.activePaneId = id])

CreatePane(W, fileId, newId) ==
    LET pane == [id |-> newId, fileId |-> fileId, order |-> Len(W.panes),
                 isActive |-> (Len(W.panes) = 0)]
        W1 == [W EXCEPT !.panes = Append(W.panes, pane)]
        W2 == IF W1.activePaneId = NoPane \/ Len(W1.panes) = 1
              THEN SetActivePane(W1, newId) ELSE W1
    IN LayoutsThenNotify(W2)

\* A reorderPanes that leaves the order values as they are.
ReorderPanesNot(ps) == ps

ReorderPanes(ps) ==
    LET sorted == SortByOrder(ps)
        rank(id) == CHOOSE k \in DOMAIN sorted : sorted[k].id = id
    IN [i \in DOMAIN ps |-> [ps[i] EXCEPT !.order = rank(ps[i].id) - 1]]

\* A removePane that also closes the last pane.
RemovePaneUnguarded(W, id) ==
    IF id \notin PaneIdsOf(W.panes) THEN W
    ELSE LET remaining == SelectSeq(W.panes, LAMBDA p : p.id # id)
             W1 == [W EXCEPT !.panes = remaining, !.paneLayouts = @ \ {id}]
             W2 == IF W.activePaneId = id
                   THEN IF Len(remaining) > 0 THEN SetActivePane(W1, remaining[1].id)
                        ELSE [W1 EXCEPT !.activePaneId = NoPane]
                   ELSE W1
         IN LayoutsThenNotify(IF W2.threw THEN W2
                              ELSE [W2 EXCEPT !.panes = ReorderPanes(W2.panes)])

RemovePane(W, id) ==
    IF id \notin PaneIdsOf(W.panes) \/ Len(W.panes) <= 1 THEN W
    ELSE LET remaining == SelectSeq(W.panes, LAMBDA p : p.id # id)
             W1 == [W EXCEPT !.panes = remaining, !.paneLayouts = @ \ {id}]
             W2 == IF W.activePaneId = id
                   THEN IF Len(remaining) > 0 THEN SetActivePane(W1, remaining[1].id)
                        ELSE [W1 EXCEPT !.activePaneId = NoPane]
                   ELSE W1
         IN LayoutsThenNotify(IF W2.threw THEN W2
                              ELSE [W2 EXCEPT !.panes = ReorderPanes(W2.panes)])

AttachFileToPane(W, paneId, fileId) ==
    IF paneId \notin PaneIdsOf(W.panes) THEN W
    ELSE NotifyPaneChange(
            [W EXCEPT !.panes[PaneIndex(W.panes, paneId)].fileId = fileId])

DetachFileFromPane(W, paneId) ==
    IF paneId \notin PaneIdsOf(W.panes) THEN W
    ELSE NotifyPaneChange(
            [W EXCEPT !.panes[PaneIndex(W.panes, paneId)].fileId = NoFile])

\* movePane(paneId, newOrder)
MovePane(W, id, newOrder) ==
    IF id \notin PaneIdsOf(W.panes) THEN W
    ELSE LET sorted == SortByOrder(W.panes)
             others == SelectSeq(sorted, LAMBDA p : p.id # id)
             target == Max(0, Min(newOrder, Len(others)))
             moved == SubSeq(others, 1, target)
                      \o <<W.panes[PaneIndex(W.panes, id)]>>
                      \o SubSeq(others, target + 1, Len(others))
             rank(q) == CHOOSE k \in DOMAIN moved : moved[k].id = q
             ps == [i \in DOMAIN W.panes |->
                      [W.panes[i] EXCEPT !.order = rank(W.panes[i].id) - 1]]
         IN LayoutsThenNotify([W EXCEPT !.panes = ps])

\* setLayoutMode(mode)
SetLayoutMode(W, mode) ==
    LET W1 == CalculateLayouts([W EXCEPT !.layoutMode = mode])
    IN IF W1.threw THEN W1 ELSE NotifyLayoutChange(W1)

\* setCanvasDimensions(width, height)
SetCanvasDimensions(W, w, h) ==
    CalculateLayouts([W EXCEPT !.canvasWidth = w, !.canvasHeight = h])

(***************************************************************************)
(* CodeVisualizer: values.                                                 *)
(***************************************************************************)
Colors == {"#007acc", "#ff0000"}
Styles == {"solid", "dotted", "dashed"}
DefaultSettings == [color |-> "#007acc", style |-> "solid", width |-> 2]

\* A label read from a connection: a property that is absent reads as undefined.
Undefined == "undefined"
Absent == "absent"
LabelOf(c) == IF c.label = Absent THEN Undefined ELSE c.label

Junk == [kind |-> "junk"]       \* an array element that is no connection (a number)

Sel(sl, sc, el, ec, f) ==
    [startLine |-> sl, startCharIndex |-> sc, endLine |-> el, endCharIndex |-> ec,
     fileId |-> f]

Conn(id, start, end, color, width, style, label) ==
    [kind |-> "conn", id |-> id, start |-> start, end |-> end, color |-> color,
     width |-> width, style |-> style, label |-> label]

\* A reference to a connection object: idx is its place in connectionLines, 0 when
\* the object is no longer (or not yet) an element of the list; obj are its fields.
Ref(list, i) == [idx |-> i, obj |-> list[i]]
Detached(ref) == IF ref = Null THEN Null ELSE [ref EXCEPT !.idx = 0]

\* The reference after connectionLines = connectionLines.filter(Keep).
\* kept is the set of places whose elements the filter keeps.
RefAfterFilter(ref, kept) ==
    IF ref = Null THEN Null
    ELSE IF ref.idx = 0 THEN ref
    ELSE IF ref.idx \in kept
         THEN [ref EXCEPT !.idx = Cardinality({j \in kept : j <= ref.idx})]
         ELSE [ref EXCEPT !.idx = 0]

PromptAfterFilter(pr, kept) ==
    IF pr = Null THEN Null ELSE [pr EXCEPT !.conn = RefAfterFilter(pr.conn, kept)]
PromptDetached(pr) ==
    IF pr = Null THEN Null ELSE [pr EXCEPT !.conn = Detached(pr.conn)]

HasJunk(list) == \E i \in DOMAIN list : list[i].kind = "junk"

\* A selection that runs from the drag's first character to its last one,
\* whatever the direction of the drag.
UpdateSelectionUnordered(s, e, f) ==
    Sel(s.lineIndex, s.charIndex, e.lineIndex, e.charIndex, f)

\* updateSelection(): the live selection spanned by the drag's two characters.
UpdateSelection(s, e, f) ==
    LET startLine == Min(s.lineIndex, e.lineIndex)
        endLine == Max(s.lineIndex, e.lineIndex)
        startChar == IF startLine = endLine THEN Min(s.charIndex, e.charIndex)
                     ELSE IF s.lineIndex < e.lineIndex THEN s.charIndex
                     ELSE e.charIndex
        endChar == IF startLine = endLine THEN Max(s.charIndex, e.charIndex)
                   ELSE IF s.lineIndex < e.lineIndex THEN e.charIndex
                   ELSE s.charIndex
    IN Sel(startLine, startChar, endLine, endChar, f)

\* getCharacterBoundsInFile(layout, line, char) # null, for the layout of file f.
HasCharBounds(fb, f, line, char) ==
    /\ line >= 0 /\ line < Len(fb[f])
    /\ char >= 0 /\ char < fb[f][line + 1]

\* getSelectionBounds(selection) # null
HasSelectionBounds(fl, fb, sel) ==
    /\ sel.fileId # NoFile
    /\ sel.fileId \in fl
    /\ HasCharBounds(fb, sel.fileId, sel.startLine, sel.startCharIndex)
    /\ HasCharBounds(fb, sel.fileId, sel.endLine, sel.endCharIndex)

\* isPointNearConnection can answer true for some point: both ends resolve.
Hittable(fl, fb, c) ==
    /\ c.kind = "conn"
    /\ HasSelectionBounds(fl, fb, c.start)
    /\ HasSelectionBounds(fl, fb, c.end)

\* getCharacterAtPosition(x, y) can answer (ch, f) for some point.
CharAtPosition(fl, fb, f, ch) == f \in fl /\ ch \in CharsOf(fb[f])

(***************************************************************************)
(* JSON.  A JSON text is modelled by what JSON.parse makes of it: a parse   *)
(* error, or a value (its kind and, for an array, its elements).           *)
(* JSON.stringify leaves out a property whose value is undefined.          *)
(***************************************************************************)
\* A serialization that writes no label at all.
StringifyNoLabel(e) ==
    IF e.kind = "conn" THEN [e EXCEPT !.label = Absent] ELSE e

StringifyElem(e) ==
    IF e.kind = "conn" /\ e.label = Undefined THEN [e EXCEPT !.label = Absent] ELSE e

\* JSON.stringify(this.connectionLines, null, 2)
Stringify(kind, list) ==
    [parse |-> "ok", kind |-> kind,
     items |-> [i \in DOMAIN list |-> StringifyElem(list[i])]]

\* JSON.parse(text) throws
ParseThrows(text) == text.parse = "error"

Unparseable == [parse |-> "error", kind |-> "none", items |-> <<>>]
NonArrayTexts == {[parse |-> "ok", kind |-> k, items |-> <<>>] :
                    k \in {"number", "null", "object"}}

\* Connections as they appear in imported texts.
SampleA == Conn(101, Sel(0, 0, 0, 0, "f1"), Sel(0, 0, 0, 0, "f2"),
                "#ff0000", 3, "dashed", "L")
SampleB == Conn(102, Sel(0, 0, 0, 0, "f2"), Sel(0, 0, 0, 0, "f2"),
                "#007acc", 2, "solid", Absent)
SampleC == Conn(103, Sel(0, 0, 0, 0, "f1"), Sel(0, 0, 0, 0, "f1"),
                "#007acc", 2, "dotted", Absent)
ArrayText(items) == [parse |-> "ok", kind |-> "array", items |-> items]
SampleLists == {<<>>, <<SampleA>>, <<SampleB, SampleA, SampleC>>,
                <<SampleC, SampleB>>, <<Junk, SampleA>>}
ArrayTexts == {ArrayText(l) : l \in SampleLists}
ImportTexts == {Unparseable} \cup NonArrayTexts \cup ArrayTexts

(***************************************************************************)
(* Snapshots.                                                              *)
(***************************************************************************)
Now ==
    [panes |-> panes, paneLayouts |-> paneLayouts, activePaneId |-> activePaneId,
     layoutMode |-> layoutMode, canvasWidth |-> canvasWidth,
     canvasHeight |-> canvasHeight, codeFiles |-> codeFiles,
     fileLayouts |-> fileLayouts, linesKind |-> linesKind,
     connectionLines |-> connectionLines, fileBounds |-> fileBounds,
     threw |-> FALSE]

\* The next state holds the snapshot W.
Becomes(W) ==
    /\ panes' = W.panes
    /\ paneLayouts' = W.paneLayouts
    /\ activePaneId' = W.activePaneId
    /\ layoutMode' = W.layoutMode
    /\ canvasWidth' = W.canvasWidth
    /\ canvasHeight' = W.canvasHeight
    /\ codeFiles' = W.codeFiles
    /\ fileLayouts' = W.fileLayouts
    /\ linesKind' = W.linesKind
    /\ connectionLines' = W.connectionLines
    /\ fileBounds' = W.fileBounds
    /\ threw' = W.threw

selVars == <<activeFileId, isSelecting, selectionStart, selectionEnd,
             currentSelection, pendingSelection, firstSelection, sameObject,
             isCreatingConnection>>

(***************************************************************************)
(* Initial state: after new CodeVisualizer(canvas).  The PaneManager        *)
(* constructor has created the 'Welcome' pane and setupPaneManager has      *)
(* passed the canvas size, before any callback was registered.             *)
(***************************************************************************)
CanvasW == 800
CanvasH == 600

InitPanes(w, h) ==
    /\ panes = <<[id |-> 1, fileId |-> NoFile, order |-> 0, isActive |-> TRUE]>>
    /\ activePaneId = 1
    /\ layoutMode = "auto"
    /\ canvasWidth = w
    /\ canvasHeight = h
    /\ paneLayouts = IF w = 0 \/ h = 0 THEN {} ELSE {1}

\* No selection, no connection, no prompt: the interaction state of a new
\* visualizer.
InitInteraction ==
    /\ linesKind = "array"
    /\ connectionLines = <<>>
    /\ lastUsedSettings = DefaultSettings
    /\ activeFileId = NoFile
    /\ isSelecting = FALSE
    /\ selectionStart = Null
    /\ selectionEnd = Null
    /\ currentSelection = Null
    /\ pendingSelection = Null
    /\ firstSelection = Null
    /\ sameObject = FALSE
    /\ isCreatingConnection = FALSE
    /\ selectedConnection = Null
    /\ currentPrompt = Null
    /\ exported = Null
    /\ probe = Null
    /\ threw = FALSE

\* The state after construction.
Init ==
    /\ InitInteraction
    /\ InitPanes(CanvasW, CanvasH)
    /\ codeFiles = [f \in Files |-> NoDoc]
    /\ fileLayouts = {}
    /\ fileBounds = [f \in Files |-> NoDoc]

\* The documents, panes and layouts after loadCodeFile("f1", d1) and
\* loadCodeFile("f2", d2) on a new visualizer: the first document went to the
\* 'Welcome' pane, the second to a new pane, and 'auto' shows both.
TwoFilesLoaded(d1, d2) ==
    /\ codeFiles = [f \in Files |-> IF f = "f1" THEN d1 ELSE d2]
    /\ panes = <<[id |-> 1, fileId |-> "f1", order |-> 0, isActive |-> TRUE],
                 [id |-> 2, fileId |-> "f2", order |-> 1, isActive |-> FALSE]>>
    /\ activePaneId = 1
    /\ layoutMode = "auto"
    /\ canvasWidth = CanvasW
    /\ canvasHeight = CanvasH
    /\ paneLayouts = {1, 2}
    /\ fileLayouts = Files
    /\ fileBounds = [f \in Files |-> IF f = "f1" THEN d1 ELSE d2]

(***************************************************************************)
(* Pointer handlers.                                                       *)
(***************************************************************************)
\* handleMouseDown on a point of the tab strip: isPaneTabAt(x, y) answers
\* (paneId, isCloseButton).
MouseDownTab(paneId, isCloseButton) ==
    /\ canvasWidth > 0
    /\ paneId \in PaneIdsOf(panes)
    /\ isCloseButton => Len(panes) > 1
    /\ Becomes(IF isCloseButton THEN RemovePane(Now, paneId)
               ELSE SetActivePane(Now, paneId))
    /\ UNCHANGED <<selVars, lastUsedSettings, selectedConnection, currentPrompt,
                   exported, probe>>

\* getConnectionAtPosition throws: the list is no array, or an element that is
\* no connection is reached before a connection near the point.
HitTestThrows(hit) ==
    \/ linesKind # "array"
    \/ \E j \in DOMAIN connectionLines :
          connectionLines[j].kind = "junk" /\ (hit = 0 \/ j < hit)

\* handleMouseDown below the tab strip.  hit is the index of the first
\* connection within tolerance of the point (0: none), and (f, ch) is what
\* getCharacterAtPosition answers there (NoFile: nothing).
MouseDownCanvas(hit, f, ch) ==
    /\ hit # 0 => /\ linesKind = "array"
                  /\ hit \in DOMAIN connectionLines
                  /\ Hittable(fileLayouts, fileBounds, connectionLines[hit])
                  /\ f = NoFile
    /\ f # NoFile => CharAtPosition(fileLayouts, fileBounds, f, ch)
    /\ IF HitTestThrows(hit)
       THEN /\ threw' = TRUE
            /\ UNCHANGED <<cvVars, pmVars, fileBounds>>
       ELSE IF hit # 0
       THEN \* selectConnection(clickedConnection)
            LET W == Render(Now)
            IN /\ selectedConnection' = Ref(connectionLines, hit)
               /\ Becomes(W)
               /\ currentPrompt' =
                     IF W.threw THEN currentPrompt
                     ELSE [kind |-> "edit", conn |-> Ref(connectionLines, hit)]
               /\ UNCHANGED <<selVars, lastUsedSettings>>
       ELSE \* clearConnectionSelection(), then text selection; each renders
            LET W == IF selectedConnection # Null \/ f # NoFile
                     THEN Render(Now) ELSE Now
            IN /\ selectedConnection' = Null
               /\ Becomes(W)
               /\ IF f # NoFile
                  THEN /\ isSelecting' = TRUE
                       /\ selectionStart' = ch
                       /\ selectionEnd' = ch
                       /\ activeFileId' = f
                       /\ currentSelection' = UpdateSelection(ch, ch, f)
                       /\ UNCHANGED <<pendingSelection, firstSelection, sameObject,
                                      isCreatingConnection>>
                  ELSE UNCHANGED selVars
               /\ UNCHANGED <<lastUsedSettings, currentPrompt>>
    /\ UNCHANGED <<exported, probe>>

\* A move handler that follows the pointer into any document.
MouseMoveAnyDocument(f, ch) ==
    /\ f # NoFile => CharAtPosition(fileLayouts, fileBounds, f, ch)
    /\ IF isSelecting /\ selectionStart # Null /\ f # NoFile
       THEN /\ selectionEnd' = ch
            /\ currentSelection' = UpdateSelection(selectionStart, ch, f)
            /\ Becomes(Render(Now))
       ELSE /\ threw' = FALSE
            /\ UNCHANGED <<selectionEnd, currentSelection, pmVars, codeFiles,
                           fileLayouts, linesKind, connectionLines, fileBounds>>
    /\ UNCHANGED <<activeFileId, isSelecting, selectionStart, pendingSelection,
                   firstSelection, sameObject, isCreatingConnection,
                   lastUsedSettings, selectedConnection, currentPrompt, exported, probe>>

\* handleMouseMove; (f, ch) is what getCharacterAtPosition answers.
MouseMove(f, ch) ==
    /\ f # NoFile => CharAtPosition(fileLayouts, fileBounds, f, ch)
    /\ IF isSelecting /\ selectionStart # Null /\ f # NoFile /\ f = activeFileId
       THEN /\ selectionEnd' = ch
            /\ currentSelection' = UpdateSelection(selectionStart, ch, activeFileId)
            /\ Becomes(Render(Now))
       ELSE /\ threw' = FALSE
            /\ UNCHANGED <<selectionEnd, currentSelection, pmVars, codeFiles,
                           fileLayouts, linesKind, connectionLines, fileBounds>>
    /\ UNCHANGED <<activeFileId, isSelecting, selectionStart, pendingSelection,
                   firstSelection, sameObject, isCreatingConnection,
                   lastUsedSettings, selectedConnection, currentPrompt, exported, probe>>

\* A finalization that drops the live selection without promoting it.
FinalizeDropsLive ==
    /\ UNCHANGED <<pendingSelection, sameObject>>
    /\ currentSelection' = Null

\* finalizeSelection(): the pending selection becomes a copy of the live one.
FinalizeSelection ==
    /\ pendingSelection' =
          IF currentSelection # Null THEN currentSelection ELSE pendingSelection
    /\ sameObject' = IF currentSelection # Null THEN FALSE ELSE sameObject
    /\ currentSelection' = Null

\* handleMouseUp
MouseUp ==
    /\ IF isSelecting /\ currentSelection # Null
       THEN FinalizeSelection
       ELSE UNCHANGED <<pendingSelection, sameObject, currentSelection>>
    /\ isSelecting' = FALSE
    /\ selectionStart' = Null
    /\ selectionEnd' = Null
    /\ threw' = FALSE
    /\ UNCHANGED <<activeFileId, firstSelection, isCreatingConnection,
                   codeFiles, fileLayouts, linesKind, connectionLines,
                   lastUsedSettings, selectedConnection, currentPrompt,
                   pmVars, fileBounds, exported, probe>>

(***************************************************************************)
(* Keyboard handler.                                                       *)
(***************************************************************************)
\* `conn_${Date.now()}_${random}`: an id that no connection object in use has.
RefIds(ref) == IF ref = Null THEN {} ELSE {ref.obj.id}
UsedConnIds ==
    {connectionLines[i].id :
        i \in {j \in DOMAIN connectionLines : connectionLines[j].kind = "conn"}}
    \cup RefIds(selectedConnection)
    \cup (IF currentPrompt = Null THEN {} ELSE RefIds(currentPrompt.conn))
FreshConnId == CHOOSE n \in 1..(Cardinality(UsedConnIds) + 1) : n \notin UsedConnIds

\* createConnectionDirectly(start, end)
NewConnection(id, start, end, settings) ==
    Conn(id, start, end, settings.color, settings.width, settings.style, Undefined)

CreateConnectionDirectly(start, end) ==
    IF linesKind # "array"
    THEN \* this.connectionLines.push is not a function
         /\ threw' = TRUE
         /\ UNCHANGED <<cvVars, pmVars, fileBounds>>
    ELSE LET list == Append(connectionLines,
                            NewConnection(FreshConnId, start, end, lastUsedSettings))
             W == Render([Now EXCEPT !.connectionLines = list])
         IN /\ Becomes(W)
            /\ IF W.threw
               THEN UNCHANGED <<firstSelection, pendingSelection, sameObject,
                               isCreatingConnection>>
               ELSE /\ firstSelection' = Null
                    /\ pendingSelection' = Null
                    /\ sameObject' = FALSE
                    /\ isCreatingConnection' = FALSE
            /\ UNCHANGED <<activeFileId, isSelecting, selectionStart, selectionEnd,
                           currentSelection, lastUsedSettings, selectedConnection,
                           currentPrompt>>

\* handleKeyDown, key 'c' / 'C'
KeyC ==
    /\ IF pendingSelection # Null /\ firstSelection # Null
       THEN /\ Len(connectionLines) < MaxConns
            /\ CreateConnectionDirectly(firstSelection, pendingSelection)
       ELSE IF pendingSelection # Null
       THEN /\ firstSelection' = pendingSelection
            /\ sameObject' = TRUE
            /\ isCreatingConnection' = TRUE
            /\ threw' = FALSE
            /\ UNCHANGED <<codeFiles, fileLayouts, linesKind, connectionLines,
                           lastUsedSettings, activeFileId, isSelecting,
                           selectionStart, selectionEnd, currentSelection,
                           pendingSelection, selectedConnection, currentPrompt,
                           pmVars, fileBounds>>
       ELSE /\ threw' = FALSE
            /\ UNCHANGED <<cvVars, pmVars, fileBounds>>
    /\ UNCHANGED <<exported, probe>>

\* An Escape handler that clears the anchor whether or not a prompt is open.
KeyEscapeClearsAlways ==
    /\ currentPrompt' = Null
    /\ firstSelection' = Null
    /\ isCreatingConnection' = FALSE
    /\ sameObject' = FALSE
    /\ threw' = FALSE
    /\ UNCHANGED <<codeFiles, fileLayouts, linesKind, connectionLines,
                   lastUsedSettings, activeFileId, isSelecting, selectionStart,
                   selectionEnd, currentSelection, pendingSelection,
                   selectedConnection, pmVars, fileBounds, exported, probe>>

\* handleKeyDown, key 'Escape'
KeyEscape ==
    /\ IF currentPrompt # Null
       THEN /\ currentPrompt' = Null
            /\ UNCHANGED <<firstSelection, isCreatingConnection, sameObject>>
       ELSE /\ firstSelection' = Null
            /\ isCreatingConnection' = FALSE
            /\ sameObject' = FALSE
            /\ UNCHANGED currentPrompt
    /\ threw' = FALSE
    /\ UNCHANGED <<codeFiles, fileLayouts, linesKind, connectionLines,
                   lastUsedSettings, activeFileId, isSelecting, selectionStart,
                   selectionEnd, currentSelection, pendingSelection,
                   selectedConnection, pmVars, fileBounds, exported, probe>>

\* conn => conn.id !== connectionId, for an element of either kind
KeepOtherIds(id, e) == e.kind = "junk" \/ e.id # id

\* deleteSelectedConnection(), with a connection selected
DeleteSelectedConnection ==
    IF linesKind # "array"
    THEN \* this.connectionLines.filter is not a function
         /\ threw' = TRUE
         /\ UNCHANGED <<cvVars, pmVars, fileBounds>>
    ELSE LET id == selectedConnection.obj.id
             Keep(e) == KeepOtherIds(id, e)
             list == SelectSeq(connectionLines, Keep)
             kept == {j \in DOMAIN connectionLines : Keep(connectionLines[j])}
         IN /\ selectedConnection' = Null
            /\ currentPrompt' = PromptAfterFilter(currentPrompt, kept)
            /\ Becomes(Render([Now EXCEPT !.connectionLines = list]))
            /\ UNCHANGED <<selVars, lastUsedSettings>>

\* handleKeyDown, key 'Delete'
KeyDelete ==
    /\ IF selectedConnection # Null
       THEN DeleteSelectedConnection
       ELSE /\ currentPrompt' = PromptDetached(currentPrompt)
            /\ Becomes(Render([Now EXCEPT !.linesKind = "array",
                                          !.connectionLines = <<>>]))
            /\ UNCHANGED <<selVars, lastUsedSettings, selectedConnection>>
    /\ UNCHANGED <<exported, probe>>

(***************************************************************************)
(* Public API.                                                             *)
(***************************************************************************)
\* `pane_${Date.now()}_${random}`: an id that no pane in use has.
UsedPaneIds == PaneIdsOf(panes) \cup paneLayouts \cup {activePaneId}
FreshPaneId == CHOOSE n \in 1..(Cardinality(UsedPaneIds) + 1) : n \notin UsedPaneIds

\* getActivePane() is a pane that has no file
ActivePaneIsEmpty(W) ==
    /\ W.activePaneId # NoPane
    /\ W.activePaneId \in PaneIdsOf(W.panes)
    /\ W.panes[PaneIndex(W.panes, W.activePaneId)].fileId = NoFile

\* this.updateFileLayoutsFromPanes(); this.render(); after the pane calls
RefreshAndRender(W) ==
    IF W.threw THEN W
    ELSE LET W1 == UpdateFileLayoutsFromPanes(W)
         IN IF W1.threw THEN W1 ELSE Render(W1)

\* loadCodeFile(id, name, code, language), code having the line lengths doc
LoadCodeFile(id, doc) ==
    LET W0 == [Now EXCEPT !.codeFiles[id] = doc]
        W1 == IF ActivePaneIsEmpty(W0)
              THEN AttachFileToPane(W0, W0.activePaneId, id)
              ELSE CreatePane(W0, id, FreshPaneId)
    IN /\ ~ActivePaneIsEmpty(W0) => Len(panes) < MaxPanes
       /\ Becomes(RefreshAndRender(W1))
       /\ UNCHANGED <<selVars, lastUsedSettings, selectedConnection, currentPrompt,
                      exported, probe>>

\* A filter that looks at the start of a connection only.
KeepOtherStarts(id, conn) == conn.start.fileId # id

\* conn => conn.start.fileId !== id && conn.end.fileId !== id
KeepOtherFiles(id, conn) == conn.start.fileId # id /\ conn.end.fileId # id

\* the loop of removeCodeFile over getPanes(): every pane showing id is detached
RECURSIVE DetachAll(_, _, _)
DetachAll(W, ps, id) ==
    IF ps = <<>> \/ W.threw THEN W
    ELSE DetachAll(IF W.panes[PaneIndex(W.panes, Head(ps).id)].fileId = id
                   THEN DetachFileFromPane(W, Head(ps).id) ELSE W,
                   Tail(ps), id)

\* removeCodeFile(id)
RemoveCodeFile(id) ==
    LET W0 == [Now EXCEPT !.codeFiles[id] = NoDoc, !.fileLayouts = @ \ {id}]
        Keep(c) == KeepOtherFiles(id, c)
    IN IF linesKind # "array" \/ HasJunk(connectionLines)
       THEN \* filter is not a function, or its callback reads conn.start.fileId
            \* of an element that has no start
            /\ Becomes([W0 EXCEPT !.threw = TRUE])
            /\ UNCHANGED <<selVars, lastUsedSettings, selectedConnection,
                           currentPrompt, exported, probe>>
       ELSE LET W1 == [W0 EXCEPT !.connectionLines = SelectSeq(connectionLines, Keep)]
                W2 == DetachAll(W1, GetPanes(W1.panes), id)
                kept == {j \in DOMAIN connectionLines : Keep(connectionLines[j])}
            IN /\ Becomes(RefreshAndRender(W2))
               /\ selectedConnection' = RefAfterFilter(selectedConnection, kept)
               /\ currentPrompt' = PromptAfterFilter(currentPrompt, kept)
               /\ UNCHANGED <<selVars, lastUsedSettings, exported, probe>>

\* removeConnection(id)
RemoveConnection(id) ==
    /\ IF linesKind # "array"
       THEN \* this.connectionLines.filter is not a function
            /\ threw' = TRUE
            /\ UNCHANGED <<cvVars, pmVars, fileBounds>>
       ELSE LET Keep(e) == KeepOtherIds(id, e)
                list == SelectSeq(connectionLines, Keep)
                kept == {j \in DOMAIN connectionLines : Keep(connectionLines[j])}
            IN /\ selectedConnection' = RefAfterFilter(selectedConnection, kept)
               /\ currentPrompt' = PromptAfterFilter(currentPrompt, kept)
               /\ Becomes(Render([Now EXCEPT !.connectionLines = list]))
               /\ UNCHANGED <<selVars, lastUsedSettings>>
    /\ UNCHANGED <<exported, probe>>

\* clearAllConnections()
ClearAllConnections ==
    /\ selectedConnection' = Detached(selectedConnection)
    /\ currentPrompt' = PromptDetached(currentPrompt)
    /\ Becomes(Render([Now EXCEPT !.linesKind = "array", !.connectionLines = <<>>]))
    /\ UNCHANGED <<selVars, lastUsedSettings, exported, probe>>

\* exportConnections(): the caller keeps the returned string
ExportConnections ==
    /\ exported' = Stringify(linesKind, connectionLines)
    /\ UNCHANGED probe
    /\ threw' = FALSE
    /\ UNCHANGED <<cvVars, pmVars, fileBounds>>

\* importConnections(connectionsJson)
ImportConnections(text) ==
    /\ IF ParseThrows(text)
       THEN \* caught and logged
            /\ threw' = FALSE
            /\ UNCHANGED <<cvVars, pmVars, fileBounds>>
       ELSE \* the parsed value is assigned, then render() runs inside the try
            /\ Becomes([Render([Now EXCEPT !.linesKind = text.kind,
                                           !.connectionLines = text.items])
                            EXCEPT !.threw = FALSE])
            /\ selectedConnection' = Detached(selectedConnection)
            /\ currentPrompt' = PromptDetached(currentPrompt)
            /\ UNCHANGED <<selVars, lastUsedSettings>>
    /\ UNCHANGED <<exported, probe>>

(***************************************************************************)
(* getConnectionLines() and getSelectedConnection(), and what a caller can *)
(* do with the returned values.  probe is the value the caller holds.      *)
(***************************************************************************)
\* getConnectionLines(): [...this.connectionLines], a new array whose elements
\* are the objects of the list
GetConnectionLines == [i \in DOMAIN connectionLines |-> Ref(connectionLines, i)]

\* getSelectedConnection(): this.selectedConnection itself
GetSelectedConnection == selectedConnection

\* Two references to one object: both null-free and equal in place and value.
SameObject(a, b) == a # Null /\ b # Null /\ a = b

\* ref.color = color, seen through every reference to that object
AssignColor(ref, color) ==
    /\ connectionLines' =
          IF ref.idx # 0 THEN [connectionLines EXCEPT ![ref.idx].color = color]
          ELSE connectionLines
    /\ selectedConnection' =
          IF SameObject(selectedConnection, ref)
          THEN [selectedConnection EXCEPT !.obj.color = color]
          ELSE selectedConnection
    /\ currentPrompt' =
          IF currentPrompt # Null /\ SameObject(currentPrompt.conn, ref)
          THEN [currentPrompt EXCEPT !.conn.obj.color = color]
          ELSE currentPrompt
    /\ threw' = FALSE
    /\ UNCHANGED <<codeFiles, fileLayouts, linesKind, lastUsedSettings, selVars,
                   pmVars, fileBounds, exported>>

\* getSelectedConnection().color = color
GetSelectedConnectionSetColor(color) ==
    /\ GetSelectedConnection # Null
    /\ AssignColor(GetSelectedConnection, color)
    /\ probe' = [kind |-> "returned",
                 value |-> [GetSelectedConnection.obj EXCEPT !.color = color]]

\* getConnectionLines()[i - 1].color = color, for an element that is an object
GetConnectionLinesSetColor(i, color) ==
    /\ linesKind = "array"
    /\ i \in DOMAIN connectionLines
    /\ connectionLines[i].kind = "conn"
    /\ AssignColor(GetConnectionLines[i], color)
    /\ probe' = [kind |-> "returned",
                 value |-> [connectionLines[i] EXCEPT !.color = color]]

\* getConnectionLines().pop(): the caller's array loses its last element
GetConnectionLinesPop ==
    /\ linesKind = "array"
    /\ connectionLines # <<>>
    /\ probe' = [kind |-> "returned",
                 array |-> [i \in 1..(Len(connectionLines) - 1) |->
                              GetConnectionLines[i].obj]]
    /\ threw' = FALSE
    /\ UNCHANGED <<cvVars, pmVars, fileBounds, exported>>

\* Object.assign(obj, updates)
ObjectAssign(obj, updates) ==
    [f \in DOMAIN obj |-> IF f \in DOMAIN updates THEN updates[f] ELSE obj[f]]

\* Values of the type Partial<Pick<ConnectionLine, 'color' | 'width' | 'style'
\* | 'label'>>: one field, three fields, and a label that is removed.
Updates == {[color |-> "#ff0000"],
            [style |-> "dotted", width |-> 5, label |-> "M"],
            [label |-> Undefined]}

\* updateSelectedConnection(updates)
UpdateSelectedConnection(updates) ==
    /\ IF selectedConnection = Null
       THEN /\ threw' = FALSE
            /\ UNCHANGED <<cvVars, pmVars, fileBounds>>
       ELSE LET ref == selectedConnection
                list == IF ref.idx # 0
                        THEN [connectionLines EXCEPT
                                 ![ref.idx] = ObjectAssign(@, updates)]
                        ELSE connectionLines
            IN /\ selectedConnection' = [ref EXCEPT !.obj = ObjectAssign(@, updates)]
               /\ currentPrompt' =
                     IF currentPrompt # Null /\ SameObject(currentPrompt.conn, ref)
                     THEN [currentPrompt EXCEPT !.conn.obj = ObjectAssign(@, updates)]
                     ELSE currentPrompt
               /\ Becomes(Render([Now EXCEPT !.connectionLines = list]))
               /\ UNCHANGED <<selVars, lastUsedSettings>>
    /\ UNCHANGED <<exported, probe>>

(***************************************************************************)
(* Pane management API of CodeVisualizer.                                  *)
(***************************************************************************)
paneFrame == <<selVars, lastUsedSettings, selectedConnection, currentPrompt,
               exported, probe>>
PaneIds == 1..MaxPanes
CanvasSizes == {0, CanvasW} \X {0, CanvasH}

\* createEmptyPane(title)
CreateEmptyPane ==
    /\ Len(panes) < MaxPanes
    /\ Becomes(CreatePane(Now, NoFile, FreshPaneId))
    /\ UNCHANGED paneFrame

\* closePane(paneId); paneId may name no pane
ClosePane(id) ==
    /\ Becomes(RemovePane(Now, id))
    /\ UNCHANGED paneFrame

\* setActivePane(paneId)
CVSetActivePane(id) ==
    /\ Becomes(SetActivePane(Now, id))
    /\ UNCHANGED paneFrame

\* movePane(paneId, newPosition)
CVMovePane(id, newPosition) ==
    /\ Becomes(MovePane(Now, id, newPosition))
    /\ UNCHANGED paneFrame

\* setLayoutMode(mode)
CVSetLayoutMode(mode) ==
    /\ Becomes(SetLayoutMode(Now, mode))
    /\ UNCHANGED paneFrame

\* handleResize(), the canvas having the size (w, h)
HandleResize(w, h) ==
    /\ Becomes(RefreshAndRender(SetCanvasDimensions(Now, w, h)))
    /\ UNCHANGED paneFrame

(***************************************************************************)
(* Floating prompts.                                                       *)
(***************************************************************************)
\* getSelectedText(selection) reads a line the stored document does not have
SelectedTextThrows(sel) ==
    /\ sel.fileId # NoFile
    /\ codeFiles[sel.fileId] # NoDoc
    /\ \E l \in sel.startLine..sel.endLine : l >= Len(codeFiles[sel.fileId])

\* showQuickActionPrompt(x, y)
ShowQuickActionPrompt ==
    /\ IF pendingSelection = Null THEN threw' = FALSE /\ UNCHANGED currentPrompt
       ELSE IF SelectedTextThrows(pendingSelection)
       THEN threw' = TRUE /\ UNCHANGED currentPrompt
       ELSE threw' = FALSE /\ currentPrompt' = [kind |-> "quick", conn |-> Null]
    /\ UNCHANGED <<codeFiles, fileLayouts, linesKind, connectionLines,
                   lastUsedSettings, selVars, selectedConnection, pmVars,
                   fileBounds, exported, probe>>

\* handleQuickConnect: the 'connect' button of the quick action prompt
\* A quick connect that sets the anchor and leaves isCreatingConnection alone.
HandleQuickConnectAnchorOnly ==
    /\ currentPrompt # Null
    /\ currentPrompt.kind = "quick"
    /\ IF pendingSelection # Null
       THEN /\ firstSelection' = pendingSelection
            /\ sameObject' = TRUE
            /\ UNCHANGED isCreatingConnection
       ELSE UNCHANGED <<firstSelection, sameObject, isCreatingConnection>>
    /\ currentPrompt' = Null
    /\ threw' = FALSE
    /\ UNCHANGED <<codeFiles, fileLayouts, linesKind, connectionLines,
                   lastUsedSettings, activeFileId, isSelecting, selectionStart,
                   selectionEnd, currentSelection, pendingSelection,
                   selectedConnection, pmVars, fileBounds, exported, probe>>

HandleQuickConnect ==
    /\ currentPrompt # Null
    /\ currentPrompt.kind = "quick"
    /\ IF pendingSelection # Null
       THEN /\ firstSelection' = pendingSelection
            /\ sameObject' = TRUE
            /\ isCreatingConnection' = TRUE
       ELSE UNCHANGED <<firstSelection, sameObject, isCreatingConnection>>
    /\ currentPrompt' = Null
    /\ threw' = FALSE
    /\ UNCHANGED <<codeFiles, fileLayouts, linesKind, connectionLines,
                   lastUsedSettings, activeFileId, isSelecting, selectionStart,
                   selectionEnd, currentSelection, pendingSelection,
                   selectedConnection, pmVars, fileBounds, exported, probe>>

\* handleConnectionEditCancel / handleQuickCancel / handleExportCancel
ClosePrompt ==
    /\ currentPrompt # Null
    /\ currentPrompt' = Null
    /\ threw' = FALSE
    /\ UNCHANGED <<codeFiles, fileLayouts, linesKind, connectionLines,
                   lastUsedSettings, selVars, selectedConnection, pmVars,
                   fileBounds, exported, probe>>

(***************************************************************************)
(* Specifications.  Each one is a scenario: the handlers are the ones      *)
(* above, whole; a scenario fixes which of them are called, with which     *)
(* inputs, and from which state of the program it starts.                  *)
(***************************************************************************)
AnyChar == CHOOSE ch \in CharPositions : TRUE

\* pointer-down / pointer-move / pointer-up anywhere below the tab strip
Pointer ==
    \/ \E hit \in 1..Len(connectionLines) : MouseDownCanvas(hit, NoFile, AnyChar)
    \/ \E f \in Files, ch \in CharPositions : MouseDownCanvas(0, f, ch)
    \/ MouseDownCanvas(0, NoFile, AnyChar)
    \/ \E f \in Files, ch \in CharPositions : MouseMove(f, ch)
    \/ MouseMove(NoFile, AnyChar)
    \/ MouseUp

Keys == KeyC \/ KeyEscape \/ KeyDelete

Prompts == ShowQuickActionPrompt \/ HandleQuickConnect \/ ClosePrompt

\* Spec: an editing session on two loaded one-character documents: pointer,
\* keys, prompts, and imports of connection lists.
InitSession == InitInteraction /\ TwoFilesLoaded(SmallDoc, SmallDoc)
SessionTexts ==
    {Unparseable, ArrayText(<<SampleA>>), ArrayText(<<SampleA, Junk>>)}
    \cup NonArrayTexts
Next ==
    \/ Pointer
    \/ Keys
    \/ Prompts
    \/ \E text \in SessionTexts : ImportConnections(text)
Spec == InitSession /\ [][Next]_vars

\* SpecFiles: documents are loaded and removed on a new visualizer,
\* connection lists are imported and connections selected.
NextFiles ==
    \/ \E id \in Files, doc \in {SmallDoc, BigDoc} : LoadCodeFile(id, doc)
    \/ \E id \in Files : RemoveCodeFile(id)
    \/ \E text \in ImportTexts : ImportConnections(text)
    \/ \E hit \in 1..Len(connectionLines) : MouseDownCanvas(hit, NoFile, AnyChar)
    \/ ClosePrompt
SpecFiles == Init /\ [][NextFiles]_vars

\* SpecCaller: a caller imports a list of three connections, selects
\* connections, deletes them, and changes what the accessors returned.
CallerMutation ==
    \/ \E color \in Colors : GetSelectedConnectionSetColor(color)
    \/ \E i \in 1..3, color \in Colors : GetConnectionLinesSetColor(i, color)
    \/ GetConnectionLinesPop
NextCaller ==
    \/ ImportConnections(ArrayText(<<SampleB, SampleA, SampleC>>))
    \/ \E hit \in 1..3 : MouseDownCanvas(hit, NoFile, AnyChar)
    \/ ClosePrompt
    \/ KeyDelete
    \/ CallerMutation
SpecCaller == InitSession /\ [][NextCaller]_vars

\* SpecUpdate: a list of two connections is imported, connections are
\* selected, updated through updateSelectedConnection and deleted through
\* the Delete key, removeConnection, clearAllConnections and removeCodeFile.
NextUpdate ==
    \/ ImportConnections(ArrayText(<<SampleB, SampleA>>))
    \/ \E hit \in 1..2 : MouseDownCanvas(hit, NoFile, AnyChar)
    \/ MouseDownCanvas(0, NoFile, AnyChar)
    \/ ClosePrompt
    \/ KeyDelete
    \/ \E updates \in Updates : UpdateSelectedConnection(updates)
    \/ \E id \in {SampleA.id, SampleB.id} : RemoveConnection(id)
    \/ ClearAllConnections
    \/ \E id \in Files : RemoveCodeFile(id)
SpecUpdate == InitSession /\ [][NextUpdate]_vars

\* SpecDrag: drags in all directions over a two-line document and a second
\* document, with the connect and cancel keys and the import of a text that
\* is no array, up to the first connection that is created.
InitDrag == InitInteraction /\ TwoFilesLoaded(BigDoc, SmallDoc)
DragTexts == {t \in NonArrayTexts : t.kind = "number"}
NextDrag ==
    /\ connectionLines = <<>>
    /\ \/ Pointer
       \/ KeyC
       \/ KeyEscape
       \/ \E text \in DragTexts : ImportConnections(text)
SpecDrag == InitDrag /\ [][NextDrag]_vars

\* SpecUnload: documents are removed and loaded again and panes closed while
\* text is selected and a connection is created or cancelled; a connection
\* that was created is deleted before the session goes on.
NextUnload ==
    \/ /\ connectionLines = <<>>
       /\ \/ Pointer
          \/ KeyC
          \/ KeyEscape
          \/ \E id \in Files : RemoveCodeFile(id)
          \/ \E id \in Files : LoadCodeFile(id, SmallDoc)
          \/ \E id \in PaneIds : ClosePane(id)
    \/ KeyDelete
SpecUnload == InitSession /\ [][NextUnload]_vars

\* SpecPanes: panes are created, closed, activated and moved, through the API
\* and by clicks on the tab strip, the layout mode is set and the canvas
\* resized, on a new visualizer.
NextPanes ==
    \/ CreateEmptyPane
    \/ \E id \in PaneIds : ClosePane(id)
    \/ \E id \in PaneIds, isCloseButton \in BOOLEAN : MouseDownTab(id, isCloseButton)
    \/ \E id \in PaneIds : CVSetActivePane(id)
    \/ \E id \in PaneIds, pos \in -1..MaxPanes : CVMovePane(id, pos)
    \/ \E mode \in LayoutModes : CVSetLayoutMode(mode)
    \/ \E size \in CanvasSizes : HandleResize(size[1], size[2])
SpecPanes == Init /\ [][NextPanes]_vars

(***************************************************************************)
(* Geometry.  Lengths are kept in units of 1 / Scale pixel, so that the     *)
(* divisions of calculateLayouts by the pane, column and row counts and the *)
(* halves and eighths of the curve formulas are exact.                      *)
(***************************************************************************)
Scale == 120
TAB_HEIGHT == 30
PANE_MARGIN == 5
MaxLayoutPanes == 5

Rect(x, y, w, h) == [x |-> x, y |-> y, width |-> w, height |-> h]

\* Math.ceil(Math.sqrt(n)) and Math.ceil(a / b) for positive integers
CeilSqrt(n) == CHOOSE c \in 1..n : c * c >= n /\ (c - 1) * (c - 1) < n
CeilDiv(a, b) == (a + b - 1) \div b

\* The layout helpers: the rectangle of the pane at each place 1..n of the
\* order-sorted pane array, for a canvas of w by h pixels; active is the
\* place of the active pane (0: none).
SingleRects(n, active, w, h) ==
    [i \in (IF active = 0 THEN {} ELSE {active}) |->
        Rect(0, TAB_HEIGHT * Scale, w * Scale, (h - TAB_HEIGHT) * Scale)]

HorizontalSplitRects(n, w, h) ==
    LET paneHeight == ((h - TAB_HEIGHT) * Scale) \div n
    IN [i \in 1..n |->
          Rect(0, TAB_HEIGHT * Scale + paneHeight * (i - 1), w * Scale,
               paneHeight - PANE_MARGIN * Scale)]

VerticalSplitRects(n, w, h) ==
    LET paneWidth == (w * Scale) \div n
    IN [i \in 1..n |->
          Rect(paneWidth * (i - 1), TAB_HEIGHT * Scale,
               paneWidth - PANE_MARGIN * Scale, (h - TAB_HEIGHT) * Scale)]

\* A grid that puts every pane in the first row.
GridRectsOneRow(n, w, h) ==
    LET cols == CeilSqrt(n)
        rows == CeilDiv(n, cols)
        paneWidth == (w * Scale) \div cols
        paneHeight == ((h - TAB_HEIGHT) * Scale) \div rows
    IN [i \in 1..n |->
          Rect(((i - 1) % cols) * paneWidth, TAB_HEIGHT * Scale,
               paneWidth - PANE_MARGIN * Scale, paneHeight - PANE_MARGIN * Scale)]

GridRects(n, w, h) ==
    LET cols == CeilSqrt(n)
        rows == CeilDiv(n, cols)
        paneWidth == (w * Scale) \div cols
        paneHeight == ((h - TAB_HEIGHT) * Scale) \div rows
    IN [i \in 1..n |->
          Rect(((i - 1) % cols) * paneWidth,
               TAB_HEIGHT * Scale + ((i - 1) \div cols) * paneHeight,
               paneWidth - PANE_MARGIN * Scale, paneHeight - PANE_MARGIN * Scale)]

AutoRects(n, active, w, h) ==
    IF n = 1 THEN SingleRects(n, active, w, h)
    ELSE IF n = 2 THEN VerticalSplitRects(n, w, h)
    ELSE IF n <= 4 THEN GridRects(n, w, h)
    ELSE VerticalSplitRects(n, w, h)

\* calculateLayouts() for n >= 1 panes on a canvas of non-zero size
LayoutRects(mode, n, active, w, h) ==
    IF mode = "single" THEN SingleRects(n, active, w, h)
    ELSE IF mode = "split-horizontal" THEN HorizontalSplitRects(n, w, h)
    ELSE IF mode = "split-vertical" THEN VerticalSplitRects(n, w, h)
    ELSE IF mode = "grid" THEN GridRects(n, w, h)
    ELSE AutoRects(n, active, w, h)

\* Font metrics (charWidth, lineHeight) as updateFontMetrics measures them,
\* in 1 / Scale pixel: 8.4 by 19.6 pixels and 7 by 20 pixels.
FontMetrics == {[charWidth |-> 1008, lineHeight |-> 2352],
                [charWidth |-> 840, lineHeight |-> 2400]}

\* File layouts (pixels): a full pane, the right half of a split, and one so
\* small that it shows two columns of one line.
ProbeFileLayouts == {Rect(0, 30, 800, 540), Rect(400, 30, 395, 540),
                     Rect(0, 30, 40, 70)}
ProbeDocs == {SmallDoc, BigDoc, <<3, 0, 2>>}

\* A renderFileText that draws every character of a line at the line's start.
RenderFileBoundsStacked(doc, layout, fm) ==
    LET textStartX == (layout.x + 10) * Scale
        textStartY == (layout.y + 25) * Scale
        maxLines == ((layout.height - 35) * Scale) \div fm.lineHeight
        maxChars == ((layout.width - 20) * Scale) \div fm.charWidth
    IN [l \in 1..Min(Len(doc), maxLines) |->
          [c \in 1..Min(doc[l], maxChars) |->
              [x |-> textStartX, y |-> textStartY + (l - 1) * fm.lineHeight,
               width |-> fm.charWidth, height |-> fm.lineHeight,
               charIndex |-> c - 1, lineIndex |-> l - 1]]]

\* renderFileText(codeFile, layout): the bounds index stored for the file
RenderFileBounds(doc, layout, fm) ==
    LET textStartX == (layout.x + 10) * Scale
        textStartY == (layout.y + 25) * Scale
        maxLines == ((layout.height - 35) * Scale) \div fm.lineHeight
        maxChars == ((layout.width - 20) * Scale) \div fm.charWidth
    IN [l \in 1..Min(Len(doc), maxLines) |->
          [c \in 1..Min(doc[l], maxChars) |->
              [x |-> textStartX + (c - 1) * fm.charWidth,
               y |-> textStartY + (l - 1) * fm.lineHeight,
               width |-> fm.charWidth, height |-> fm.lineHeight,
               charIndex |-> c - 1, lineIndex |-> l - 1]]]

\* getCharacterBoundsInFile(layout, lineIndex, charIndex) on a stored index
GetCharacterBoundsInFile(bounds, lineIndex, charIndex) ==
    IF lineIndex < 0 \/ lineIndex >= Len(bounds) THEN Null
    ELSE IF charIndex < 0 \/ charIndex >= Len(bounds[lineIndex + 1]) THEN Null
    ELSE bounds[lineIndex + 1][charIndex + 1]

\* getCharacterAtInFile(layout, x, y): the first character, line by line,
\* whose rectangle holds the point
GetCharacterAtInFile(bounds, x, y) ==
    LET holds(ch) == /\ x >= ch.x /\ x < ch.x + ch.width
                     /\ y >= ch.y /\ y < ch.y + ch.height
        places == UNION {{<<l, c>> : c \in DOMAIN bounds[l]} : l \in DOMAIN bounds}
        hits == {lc \in places : holds(bounds[lc[1]][lc[2]])}
        first == CHOOSE lc \in hits :
                    \A other \in hits :
                       lc[1] < other[1] \/ (lc[1] = other[1] /\ lc[2] <= other[2])
    IN IF hits = {} THEN Null ELSE bounds[first[1]][first[2]]

\* getSelectionBounds(selection): layout is fileLayouts.get(selection.fileId)
\* (Null: none) and bounds the index stored for that file.
GetSelectionBounds(layout, bounds, sel) ==
    IF layout = Null THEN Null
    ELSE LET startBounds == GetCharacterBoundsInFile(bounds, sel.startLine,
                                                     sel.startCharIndex)
             endBounds == GetCharacterBoundsInFile(bounds, sel.endLine,
                                                   sel.endCharIndex)
         IN IF startBounds = Null \/ endBounds = Null THEN Null
            ELSE LET x == Min(startBounds.x, endBounds.x)
                     y == Min(startBounds.y, endBounds.y)
                 IN Rect(x, y,
                         Max(endBounds.x + endBounds.width - x,
                             startBounds.x + startBounds.width - x),
                         Max(endBounds.y + endBounds.height - y,
                             startBounds.y + startBounds.height - y))

\* lineBounds[i]?.x || fallback
XOr(lineBounds, i, fallback) ==
    IF i >= 0 /\ i < Len(lineBounds) /\ lineBounds[i + 1].x # 0
    THEN lineBounds[i + 1].x ELSE fallback

\* bounds[line] of highlightSelectionInFile; <<>> stands for undefined as
\* well, both are skipped alike
LineBounds(bounds, line) ==
    IF line + 1 \in DOMAIN bounds THEN bounds[line + 1] ELSE <<>>

\* A highlightSelectionInFile that paints every line of the span in full.
HighlightWholeLines(bounds, fm, startLine, startChar, endLine, endChar) ==
    LET painted(line) == Len(LineBounds(bounds, line)) > 0
        rectOf(line) ==
            LET lineBounds == LineBounds(bounds, line)
            IN Rect(lineBounds[1].x, lineBounds[1].y,
                    lineBounds[Len(lineBounds)].x + fm.charWidth - lineBounds[1].x,
                    fm.lineHeight)
        lines == SelectSeq([i \in 1..(endLine - startLine + 1) |-> startLine + i - 1],
                           painted)
    IN [i \in 1..Len(lines) |-> rectOf(lines[i])]

\* highlightSelectionInFile(layout, startLine, startChar, endLine, endChar):
\* the rectangles of its fillRect calls, in order
HighlightSelectionInFile(bounds, fm, startLine, startChar, endLine, endChar) ==
    LET painted(line) == Len(LineBounds(bounds, line)) > 0
        rectOf(line) ==
            LET lineBounds == LineBounds(bounds, line)
                last == Len(lineBounds) - 1
            IN IF startLine = endLine
               THEN LET startX == XOr(lineBounds, startChar, 0)
                        endX == XOr(lineBounds, Min(endChar, last), startX)
                    IN Rect(startX, lineBounds[1].y,
                            Max(endX - startX + fm.charWidth, fm.charWidth),
                            fm.lineHeight)
               ELSE IF line = startLine
               THEN LET startX == XOr(lineBounds, startChar, 0)
                        endX == lineBounds[last + 1].x + fm.charWidth
                    IN Rect(startX, lineBounds[1].y, endX - startX, fm.lineHeight)
               ELSE IF line = endLine
               THEN LET startX == lineBounds[1].x
                        endX == XOr(lineBounds, Min(endChar, last), startX)
                    IN Rect(startX, lineBounds[1].y, endX - startX + fm.charWidth,
                            fm.lineHeight)
               ELSE LET startX == lineBounds[1].x
                        endX == lineBounds[last + 1].x + fm.charWidth
                    IN Rect(startX, lineBounds[1].y, endX - startX, fm.lineHeight)
        lines == SelectSeq([i \in 1..(endLine - startLine + 1) |-> startLine + i - 1],
                           painted)
    IN [i \in 1..Len(lines) |-> rectOf(lines[i])]

\* Spans with startLine <= endLine over the lines and columns 0..2.
ProbeSpans ==
    {sp \in [startLine : 0..2, startChar : 0..2, endLine : 0..2, endChar : 0..2] :
        sp.startLine <= sp.endLine}

Abs(a) == IF a < 0 THEN -a ELSE a
Point(x, y) == [x |-> x, y |-> y]

\* A drawn curve whose control points are offset by half the horizontal
\* distance of its ends.
DrawnCurveHorizontal(startBounds, endBounds) ==
    IF startBounds = Null \/ endBounds = Null THEN Null
    ELSE LET startX == startBounds.x + startBounds.width \div 2
             startY == startBounds.y + startBounds.height \div 2
             endX == endBounds.x + endBounds.width \div 2
             endY == endBounds.y + endBounds.height \div 2
             controlOffset == Abs(endX - startX) \div 2
         IN [start |-> Point(startX, startY),
             cp1 |-> Point(startX + controlOffset, startY),
             cp2 |-> Point(endX - controlOffset, endY),
             end |-> Point(endX, endY)]

\* renderConnectionLine: moveTo(start), bezierCurveTo(cp1, cp2, end); Null
\* when nothing is drawn
DrawnCurve(startBounds, endBounds) ==
    IF startBounds = Null \/ endBounds = Null THEN Null
    ELSE LET startX == startBounds.x + startBounds.width \div 2
             startY == startBounds.y + startBounds.height \div 2
             endX == endBounds.x + endBounds.width \div 2
             endY == endBounds.y + endBounds.height \div 2
             controlOffset == Abs(endY - startY) \div 2
         IN [start |-> Point(startX, startY),
             cp1 |-> Point(startX + controlOffset, startY),
             cp2 |-> Point(endX - controlOffset, endY),
             end |-> Point(endX, endY)]

\* getBezierPoint(startX, startY, endX, endY, t): the four points of the
\* cubic formula
BezierControlPoints(startX, startY, endX, endY) ==
    LET controlOffset == Abs(endY - startY) \div 2
        cp1x == startX + controlOffset
        cp1y == startY
        cp2x == endX - controlOffset
        cp2y == endY
    IN [start |-> Point(startX, startY), cp1 |-> Point(cp1x, cp1y),
        cp2 |-> Point(cp2x, cp2y), end |-> Point(endX, endY)]

\* isPointNearConnection: the curve that is sampled; Null when the answer is
\* false for every point
HitCurve(startBounds, endBounds) ==
    IF startBounds = Null \/ endBounds = Null THEN Null
    ELSE BezierControlPoints(startBounds.x + startBounds.width \div 2,
                             startBounds.y + startBounds.height \div 2,
                             endBounds.x + endBounds.width \div 2,
                             endBounds.y + endBounds.height \div 2)

ProbeSelections == {Sel(0, 1, 1, 0, "f1"), Sel(2, 0, 2, 1, "f1"),
                    Sel(0, 0, 0, 2, "f1")}
\* One end of a connection: the layout of its file (Null: the file has none),
\* the document rendered there and the selection.
ProbeEnds == [layout : {Null, Rect(0, 30, 800, 540), Rect(400, 30, 395, 540)},
              doc : {BigDoc, <<3, 0, 2>>}, sel : ProbeSelections]
EndBounds(e, fm) ==
    IF e.layout = Null THEN Null
    ELSE GetSelectionBounds(e.layout, RenderFileBounds(e.doc, e.layout, fm), e.sel)

geomFrame == <<cvVars, pmVars, fileBounds, exported, threw>>
ProbeWidths == {12, 100, CanvasW}
ProbeHeights == {40, 100, CanvasH}

\* setCanvasDimensions(w, h) / setLayoutMode(mode) with n panes: the
\* rectangles that calculateLayouts puts into paneLayouts.
ProbeLayout(mode, n, active, w, h) ==
    /\ probe' = [kind |-> "layout", mode |-> mode, n |-> n, active |-> active,
                 w |-> w, h |-> h, rects |-> LayoutRects(mode, n, active, w, h)]
    /\ UNCHANGED geomFrame

\* getCharacterBoundsInFile for (lineIndex, charIndex) of a document rendered
\* into a layout, then getCharacterAtInFile at the center of the rectangle.
ProbeCharacter(doc, layout, fm, lineIndex, charIndex) ==
    LET bounds == RenderFileBounds(doc, layout, fm)
        b == GetCharacterBoundsInFile(bounds, lineIndex, charIndex)
    IN /\ probe' = [kind |-> "char", doc |-> doc, layout |-> layout, fm |-> fm,
                    lineIndex |-> lineIndex, charIndex |-> charIndex,
                    bounds |-> b,
                    found |-> IF b = Null THEN Null
                              ELSE GetCharacterAtInFile(bounds,
                                       b.x + b.width \div 2, b.y + b.height \div 2)]
       /\ UNCHANGED geomFrame

\* renderConnectionLine and isPointNearConnection for a connection with the
\* ends s and e, in one layout state.
ProbeCurve(s, e, fm) ==
    /\ probe' = [kind |-> "curve", s |-> s, e |-> e, fm |-> fm,
                 drawn |-> DrawnCurve(EndBounds(s, fm), EndBounds(e, fm)),
                 hit |-> HitCurve(EndBounds(s, fm), EndBounds(e, fm))]
    /\ UNCHANGED geomFrame

\* renderFileText of doc in layout, then highlightSelectionInFile of the span.
ProbeHighlight(doc, layout, fm, sp) ==
    /\ probe' = [kind |-> "highlight", doc |-> doc, layout |-> layout, fm |-> fm,
                 span |-> sp,
                 bounds |-> RenderFileBounds(doc, layout, fm),
                 rects |-> HighlightSelectionInFile(RenderFileBounds(doc, layout, fm), fm,
                                                    sp.startLine, sp.startChar,
                                                    sp.endLine, sp.endChar)]
    /\ UNCHANGED geomFrame

\* SpecGeometry: the layout, character, curve and highlight computations on
\* given inputs.
NextGeometry ==
    \/ \E mode \in LayoutModes, n \in 1..MaxLayoutPanes, w \in ProbeWidths,
          h \in ProbeHeights :
          \E active \in 0..n : ProbeLayout(mode, n, active, w, h)
    \/ \E doc \in ProbeDocs, layout \in ProbeFileLayouts, fm \in FontMetrics,
          lineIndex \in 0..2, charIndex \in 0..2 :
          ProbeCharacter(doc, layout, fm, lineIndex, charIndex)
    \/ \E s \in ProbeEnds, e \in ProbeEnds, fm \in FontMetrics : ProbeCurve(s, e, fm)
    \/ \E doc \in {BigDoc, <<3, 0, 2>>},
          layout \in {Rect(0, 30, 800, 540), Rect(0, 30, 40, 70)},
          fm \in FontMetrics, sp \in ProbeSpans :
          ProbeHighlight(doc, layout, fm, sp)
SpecGeometry == Init /\ [][NextGeometry]_vars

(***************************************************************************)
(* The tab strip: where renderPaneTabs draws the tab of a pane and where   *)
(* isPaneTabAt looks for it.  Lengths are in 1 / Scale pixel.              *)
(***************************************************************************)
MAX_TAB_WIDTH == 150

\* Math.min(150, width / Math.max(1, panes.length))
TabWidth(ps, width) ==
    Min(MAX_TAB_WIDTH * Scale, (width * Scale) \div Max(1, Len(ps)))

\* renderPaneTabs: the band [from, to) of the tab drawn for the pane id,
\* Null if none is drawn.  currentX advances for the panes that have a
\* layout only.
RenderPaneTabs(ps, layouts, width, id) ==
    LET sorted == GetPanes(ps)
        tabWidth == TabWidth(ps, width)
        place == PaneIndex(sorted, id)
        drawnBefore == Cardinality({i \in 1..(place - 1) : sorted[i].id \in layouts})
    IN IF id \notin PaneIdsOf(ps) \/ id \notin layouts THEN Null
       ELSE [from |-> drawnBefore * tabWidth, to |-> (drawnBefore + 1) * tabWidth]

\* isPaneTabAt(x, y) for y in the tab strip: the band [from, to) of the
\* points x that are answered with the pane id.  currentX advances for
\* every pane.
IsPaneTabAt(ps, width, id) ==
    LET sorted == GetPanes(ps)
        tabWidth == TabWidth(ps, width)
        place == PaneIndex(sorted, id)
    IN IF id \notin PaneIdsOf(ps) THEN Null
       ELSE [from |-> (place - 1) * tabWidth, to |-> place * tabWidth]

(***************************************************************************)
(* SyntaxHighlighter.tokenize, for the language 'python' and one line.  A  *)
(* line is a sequence of characters.                                       *)
(***************************************************************************)
MaxLineLen == 4      \* lines are typed while they are shorter
\* Characters by name: double quote, single quote, backtick, backslash,
\* space, hash, equals sign, the letter a and the digit 1.
Quotes == {"dquote", "squote", "backtick"}
Chars == {"dquote", "squote", "a", "1", "space", "backslash", "hash", "equals"}
Token(type, value, column) == [type |-> type, value |-> value, column |-> column]

\* The length of the longest prefix of remaining whose characters are in set.
RECURSIVE RunLength(_, _)
RunLength(remaining, set) ==
    IF remaining = <<>> \/ remaining[1] \notin set THEN 0
    ELSE 1 + RunLength(Tail(remaining), set)

\* The body /(?:\\.|(?!\1)[^\\])*/ and the closing quote, from place i of
\* remaining: the length of the match of the whole pattern, 0 if there is none.
RECURSIVE StringBody(_, _, _)
StringBody(remaining, quote, i) ==
    IF i > Len(remaining) THEN 0
    ELSE IF remaining[i] = "backslash"
         THEN IF i + 1 > Len(remaining) THEN 0
              ELSE StringBody(remaining, quote, i + 2)
    ELSE IF remaining[i] = quote THEN i
    ELSE StringBody(remaining, quote, i + 1)

\* remaining.match(/^(['"`])((?:\\.|(?!\1)[^\\])*)\1/): the length of the
\* match, 0 if there is none
StringMatch(remaining) ==
    IF remaining[1] \in Quotes THEN StringBody(remaining, remaining[1], 2) ELSE 0

\* The 'python' configuration, as far as it concerns the characters of Chars:
\* no keyword is spelled with the letter a alone, the operators are = and ==.
PythonKeywords == {<<"a", "s">>, <<"i", "n">>, <<"i", "s">>, <<"o", "r">>}
OperatorMatch(remaining) ==
    IF Len(remaining) >= 2 /\ remaining[1] = "equals" /\ remaining[2] = "equals" THEN 2
    ELSE IF remaining[1] = "equals" THEN 1
    ELSE 0

\* The while loop of tokenize over one line, from the column columnIndex
RECURSIVE TokenizeFrom(_, _)
TokenizeFrom(line, columnIndex) ==
    IF columnIndex >= Len(line) THEN <<>>
    ELSE LET remaining == SubSeq(line, columnIndex + 1, Len(line))
             taken(n) == SubSeq(remaining, 1, n)
             whitespace == RunLength(remaining, {"space"})
             string == StringMatch(remaining)
             number == RunLength(remaining, {"1"})
             identifier == IF remaining[1] = "a" THEN RunLength(remaining, {"a", "1"})
                           ELSE 0
             operator == OperatorMatch(remaining)
         IN IF whitespace > 0 THEN TokenizeFrom(line, columnIndex + whitespace)
            ELSE IF remaining[1] = "hash"
            THEN <<Token("comment", remaining, columnIndex)>>
            ELSE IF string > 0
            THEN <<Token("string", taken(string), columnIndex)>>
                 \o TokenizeFrom(line, columnIndex + string)
            ELSE IF number > 0
            THEN <<Token("number", taken(number), columnIndex)>>
                 \o TokenizeFrom(line, columnIndex + number)
            ELSE IF identifier > 0
            THEN <<Token(IF taken(identifier) \in PythonKeywords
                         THEN "keyword" ELSE "identifier",
                         taken(identifier), columnIndex)>>
                 \o TokenizeFrom(line, columnIndex + identifier)
            ELSE IF operator > 0
            THEN <<Token("operator", taken(operator), columnIndex)>>
                 \o TokenizeFrom(line, columnIndex + operator)
            ELSE <<Token("default", taken(1), columnIndex)>>
                 \o TokenizeFrom(line, columnIndex + 1)

\* tokenize(code, 'python') for a code of one line
Tokenize(line) == TokenizeFrom(line, 0)

\* tokenize of the line probed before with one more character typed at its end
ProbeTokenize(c) ==
    /\ LET before == IF probe # Null /\ probe.kind = "tokens" THEN probe.line
                     ELSE <<>>
       IN /\ Len(before) < MaxLineLen
          /\ probe' = [kind |-> "tokens", line |-> Append(before, c),
                       tokens |-> Tokenize(Append(before, c))]
    /\ UNCHANGED geomFrame

\* SpecTokens: every line of at most MaxLineLen characters is tokenized.
NextTokens == \E c \in Chars : ProbeTokenize(c)
SpecTokens == Init /\ [][NextTokens]_vars

\* SpecJson: connection lists are created, imported and exported.
NextJson ==
    \/ \E f \in Files, ch \in CharPositions : MouseDownCanvas(0, f, ch)
    \/ MouseUp
    \/ KeyC
    \/ ExportConnections
    \/ \E text \in ImportTexts \cup (IF exported = Null THEN {} ELSE {exported}) :
          ImportConnections(text)
SpecJson == InitSession /\ [][NextJson]_vars

(***************************************************************************)
(* Properties.                                                             *)
(***************************************************************************)
\* C1: whenever removeCodeFile(id) returns, the connection list holds exactly
\* the connections it held before whose start and end both lie in other
\* documents, in their earlier relative order.
C1_RemoveKeepsUnrelated ==
    [][\A id \in Files :
          (RemoveCodeFile(id) /\ ~threw') =>
             /\ linesKind' = "array"
             /\ connectionLines' =
                   SelectSeq(connectionLines,
                             LAMBDA c : c.start.fileId # id /\ c.end.fileId # id)]_vars

\* removeCodeFile("f1") can return having dropped two connections, one of
\* them attached to f1 by its start only, and kept a third.
C1_Witness ==
    /\ connectionLines = <<SampleB, SampleA, SampleC>>
    /\ ENABLED (RemoveCodeFile("f1") /\ ~threw' /\ connectionLines' = <<SampleB>>)

\* C2 (as the specification states it): importConnections with a text that
\* does not parse, or that parses to something other than an array of
\* connections, does not throw and leaves the connection list as it was.
NotConnectionArray(text) ==
    ParseThrows(text) \/ text.kind # "array" \/ HasJunk(text.items)
C2_BadImportChangesNothing ==
    [][\A text \in ImportTexts :
          (ImportConnections(text) /\ NotConnectionArray(text)) =>
             /\ ~threw'
             /\ linesKind' = linesKind
             /\ connectionLines' = connectionLines]_vars

\* C3: importing the text that exportConnections returned for the current
\* list gives a list equal to it field by field (an undefined label reads as
\* undefined again), and exporting that list gives the same text.
FieldEqual(l1, l2) ==
    /\ Len(l1) = Len(l2)
    /\ \A i \in DOMAIN l1 :
          /\ l1[i].kind = l2[i].kind
          /\ l1[i].kind = "conn" =>
                /\ l1[i].id = l2[i].id
                /\ l1[i].start = l2[i].start
                /\ l1[i].end = l2[i].end
                /\ l1[i].color = l2[i].color
                /\ l1[i].width = l2[i].width
                /\ l1[i].style = l2[i].style
                /\ LabelOf(l1[i]) = LabelOf(l2[i])
ConnectCreates ==
    /\ KeyC
    /\ firstSelection # Null /\ pendingSelection # Null
    /\ linesKind = "array"
    /\ Len(connectionLines') = Len(connectionLines) + 1
C4_NoCreationWithoutSecondSelection ==
    [][ConnectCreates => ~sameObject]_vars

\* C5 (as the specification states it): key C with an anchor A and a pending
\* selection P appends exactly one connection from A to P with the current
\* default color, width and style, leaves the earlier connections as they
\* were, and clears the anchor, the pending selection and
\* isCreatingConnection.
C5_ConnectAppendsAndResets ==
    [][(KeyC /\ firstSelection # Null /\ pendingSelection # Null) =>
          /\ linesKind' = "array"
          /\ Len(connectionLines') = Len(connectionLines) + 1
          /\ SubSeq(connectionLines', 1, Len(connectionLines)) = connectionLines
          /\ LET c == connectionLines'[Len(connectionLines')]
             IN /\ c.kind = "conn"
                /\ c.start = firstSelection
                /\ c.end = pendingSelection
                /\ c.color = lastUsedSettings.color
                /\ c.width = lastUsedSettings.width
                /\ c.style = lastUsedSettings.style
          /\ firstSelection' = Null
          /\ pendingSelection' = Null
          /\ isCreatingConnection' = FALSE]_vars

C7_SelectedConnectionExcludesDrag ==
    /\ [](~(selectedConnection # Null /\ isSelecting))
    /\ [][\A hit \in 1..MaxConns :
            (hit <= Len(connectionLines) /\ MouseDownCanvas(hit, NoFile, AnyChar))
               => (isSelecting' => isSelecting)]_vars

\* C8: a pointer-up that ends a drag with a live selection makes the pending
\* selection equal to the live one, the live one null and isSelecting
\* false, and leaves the anchor and the connection list alone; a pointer-up
\* with no drag in progress changes no selection.
C8_PointerUpPromotes ==
    [][MouseUp =>
          /\ (isSelecting /\ currentSelection # Null) =>
                /\ pendingSelection' = currentSelection
                /\ currentSelection' = Null
                /\ isSelecting' = FALSE
                /\ firstSelection' = firstSelection
                /\ linesKind' = linesKind
                /\ connectionLines' = connectionLines
          /\ ~isSelecting =>
                /\ currentSelection' = currentSelection
                /\ pendingSelection' = pendingSelection
                /\ firstSelection' = firstSelection]_vars

\* A drag ends while an anchor is set and an earlier selection, other than
\* the live one, is pending.
C8_Witness ==
    /\ isSelecting /\ currentSelection # Null
    /\ firstSelection # Null
    /\ pendingSelection # Null /\ pendingSelection # currentSelection
    /\ ENABLED (MouseUp /\ pendingSelection' = currentSelection)

\* C9: during a drag the live selection lies in the document of the
\* pointer-down (activeFileId, which only a pointer-down on a character of
\* that document sets), and a pointer move that resolves to a character of
\* another document or to no character leaves the live selection unchanged.
C9_DragStaysInDocument ==
    /\ []((isSelecting /\ currentSelection # Null) =>
              currentSelection.fileId = activeFileId)
    /\ [][activeFileId' # activeFileId =>
            \E ch \in CharPositions :
               /\ MouseDownCanvas(0, activeFileId', ch)
               /\ isSelecting']_vars
    /\ [][\A f \in Files \cup {NoFile} : \A ch \in CharPositions :
            (MouseMove(f, ch) /\ isSelecting /\ f # activeFileId) =>
                currentSelection' = currentSelection]_vars

\* A drag in f1 that started on its second line is under way and the
\* pointer can move over the character of f2.
C9_Witness ==
    /\ isSelecting /\ currentSelection # Null
    /\ activeFileId = "f1"
    /\ selectionStart = [lineIndex |-> 1, charIndex |-> 1]
    /\ ENABLED (MouseMove("f2", [lineIndex |-> 0, charIndex |-> 0]))

\* C10: the live, pending and anchor selections and both ends of every
\* created connection are normalized (startLine < endLine, or the lines are
\* equal and startCharIndex <= endCharIndex), and the live selection runs
\* between the drag's two characters taken in reading order.
Normalized(sel) ==
    \/ sel.startLine < sel.endLine
    \/ sel.startLine = sel.endLine /\ sel.startCharIndex <= sel.endCharIndex
Precedes(a, b) ==
    \/ a.lineIndex < b.lineIndex
    \/ a.lineIndex = b.lineIndex /\ a.charIndex <= b.charIndex
SpansDrag(sel, a, b) ==
    LET lo == IF Precedes(a, b) THEN a ELSE b
        hi == IF Precedes(a, b) THEN b ELSE a
    IN /\ sel.startLine = lo.lineIndex /\ sel.startCharIndex = lo.charIndex
       /\ sel.endLine = hi.lineIndex /\ sel.endCharIndex = hi.charIndex
C10_SelectionsNormalized ==
    /\ currentSelection # Null => Normalized(currentSelection)
    /\ pendingSelection # Null => Normalized(pendingSelection)
    /\ firstSelection # Null => Normalized(firstSelection)
    /\ (isSelecting /\ currentSelection # Null) =>
          SpansDrag(currentSelection, selectionStart, selectionEnd)
    /\ \A i \in DOMAIN connectionLines :
          connectionLines[i].kind = "conn" =>
             /\ Normalized(connectionLines[i].start)
             /\ Normalized(connectionLines[i].end)

\* A connection was created whose start was dragged over two lines, from a
\* later column of the first line to an earlier column of the second.
C10_Witness ==
    \E i \in DOMAIN connectionLines :
       /\ connectionLines[i].kind = "conn"
       /\ connectionLines[i].start = Sel(0, 1, 1, 0, "f1")
       /\ connectionLines[i].end.fileId = "f2"

\* C11 (as the specification states it): after removeCodeFile(id) returns,
\* id is not among the loaded documents, no pane shows id, id has no layout
\* rectangle and the renderer holds no bounds index for id.
C11_RemoveLeavesNoTrace ==
    [][\A id \in Files :
          (RemoveCodeFile(id) /\ ~threw') =>
             /\ codeFiles'[id] = NoDoc
             /\ \A i \in DOMAIN panes' : panes'[i].fileId # id
             /\ id \notin fileLayouts'
             /\ fileBounds'[id] = NoDoc]_vars

\* C12: closing the only remaining pane, or a pane id that names no pane,
\* changes no pane, no layout rectangle and not the active pane; so the pane
\* set is never empty, whatever panes are created, closed or clicked.
C12_LastPaneStays ==
    /\ [](Len(panes) >= 1)
    /\ [][\A id \in PaneIds :
            (ClosePane(id) /\ (id \notin PaneIdsOf(panes) \/ Len(panes) <= 1)) =>
                UNCHANGED <<panes, paneLayouts, activePaneId>>]_vars

\* The first pane was closed earlier; the one pane left is asked to close.
C12_Witness ==
    /\ Len(panes) = 1
    /\ panes[1].id = 2
    /\ ENABLED (ClosePane(2) /\ panes' = panes)

\* C13: in every layout mode and for every pane count, the rectangles that
\* calculateLayouts assigns on a canvas large enough for every rectangle to
\* have a positive width and height do not overlap pairwise, and computing
\* them again from the same panes, mode and canvas size gives the same
\* rectangles.
Overlap(r1, r2) ==
    /\ r1.x < r2.x + r2.width /\ r2.x < r1.x + r1.width
    /\ r1.y < r2.y + r2.height /\ r2.y < r1.y + r1.height
AllPositive(rects) ==
    \A i \in DOMAIN rects : rects[i].width > 0 /\ rects[i].height > 0
C13_LayoutsDisjoint ==
    (probe # Null /\ probe.kind = "layout" /\ AllPositive(probe.rects)) =>
       /\ \A i, j \in DOMAIN probe.rects :
             i # j => ~Overlap(probe.rects[i], probe.rects[j])
       /\ probe.rects =
             LayoutRects(probe.mode, probe.n, probe.active, probe.w, probe.h)

\* Five panes were laid out as a grid of three columns and two rows.
C13_Witness ==
    /\ probe # Null /\ probe.kind = "layout"
    /\ probe.mode = "grid" /\ probe.n = 5
    /\ AllPositive(probe.rects)
    /\ probe.rects[5].x > 0 /\ probe.rects[5].y > probe.rects[1].y

\* C14: for a rendered document and every (line, col) at which
\* getCharacterBoundsInFile answers a rectangle, getCharacterAtInFile at the
\* center of that rectangle answers the character with the same (line, col).
C14_BoundsThenCharacterAt ==
    (probe # Null /\ probe.kind = "char" /\ probe.bounds # Null) =>
       /\ probe.found # Null
       /\ probe.found.lineIndex = probe.lineIndex
       /\ probe.found.charIndex = probe.charIndex

\* The last character of the third line, after an empty second line, was
\* looked up and found.
C14_Witness ==
    /\ probe # Null /\ probe.kind = "char"
    /\ probe.doc = <<3, 0, 2>>
    /\ probe.lineIndex = 2 /\ probe.charIndex = 1
    /\ probe.bounds # Null /\ probe.found # Null

\* C15 (as the specification states it): a pointer-down within tolerance of
\* a connection whose two ends are rendered (its midpoint, say) and of no
\* earlier connection of the list is answered with that connection, which
\* becomes the selected one.
C15_HitTestFindsFirstConnection ==
    [][\A hit \in 1..3 :
          (/\ hit \in DOMAIN connectionLines
           /\ connectionLines[hit].kind = "conn"
           /\ MouseDownCanvas(hit, NoFile, AnyChar)) =>
              /\ selectedConnection' # Null
              /\ selectedConnection'.idx = hit
              /\ selectedConnection'.obj = connectionLines[hit]]_vars

\* C16: for every connection and layout state, renderConnectionLine and
\* isPointNearConnection / getBezierPoint use the same start point, end point
\* and control points, and the connection is hit-testable exactly when it is
\* drawn: both resolve the bounds of its two ends, or neither does.
C16_DrawnCurveIsHitCurve ==
    (probe # Null /\ probe.kind = "curve") => probe.drawn = probe.hit

\* A curve between two documents side by side, from a selection over two
\* lines to one on a third line, was drawn with control points off its ends.
C16_Witness ==
    /\ probe # Null /\ probe.kind = "curve"
    /\ probe.drawn # Null
    /\ probe.s.layout # probe.e.layout
    /\ probe.s.sel = Sel(0, 1, 1, 0, "f1")
    /\ probe.drawn.cp1.x > probe.drawn.start.x
    /\ probe.drawn.end.x - probe.drawn.start.x # probe.drawn.end.y - probe.drawn.start.y

C17_PaintedLines ==
    {l \in probe.span.startLine..probe.span.endLine :
        Len(LineBounds(probe.bounds, l)) > 0}

C18_WithoutSelected ==
    LET others(e) == e.kind = "junk" \/ e.id # selectedConnection.obj.id
    IN SelectSeq(connectionLines, others)

\* C18 (as the specification states it): Delete with a connection selected
\* removes exactly that connection, the others keep their order and the
\* selection becomes null; Delete with none selected empties the list.
C18_DeleteRemovesSelectedOrAll ==
    [][KeyDelete =>
          /\ linesKind' = "array"
          /\ IF selectedConnection # Null
             THEN /\ connectionLines' = C18_WithoutSelected
                  /\ selectedConnection' = Null
             ELSE connectionLines' = <<>>]_vars

\* C19 (as the specification states it): what getConnectionLines and
\* getSelectedConnection return are copies, so a caller that changes a
\* returned value changes neither the visualizer's list nor its connections.
C19_ReturnedValuesAreCopies ==
    [][CallerMutation => UNCHANGED <<connectionLines, selectedConnection>>]_vars

\* C20 (as the specification states it): in 'single' layout mode, after any
\* sequence of createPane, removePane, setActivePane, movePane and resize,
\* the active pane and no other pane has a layout rectangle.
C20_SingleModeLaysOutActivePane ==
    layoutMode = "single" => paneLayouts = {activePaneId}

\* C21 (as the specification states it): after a resize notification for the
\* size (w, h) returns, every rectangle of the layout mapping was computed
\* from (w, h).  calculateLayouts computes rectangles from sizes other than 0
\* only, so after a resize to a width or height of 0 a rectangle that is in
\* the mapping was computed for an earlier size.
C21_ResizeReplacesLayouts ==
    [][\A w \in {0, CanvasW}, h \in {0, CanvasH} :
          (HandleResize(w, h) /\ (w = 0 \/ h = 0)) => paneLayouts' = {}]_vars

\* C22 (as the specification states it): updateSelectedConnection(updates)
\* changes the color, width, style and label of the selected connection in
\* place in the connection list and nothing else: the connection keeps its
\* id and endpoints, the other connections and the order stay, and with no
\* connection selected nothing changes.
C22_UpdateInPlace ==
    [][\A updates \in Updates :
          UpdateSelectedConnection(updates) =>
             /\ linesKind' = linesKind
             /\ IF selectedConnection = Null
                THEN UNCHANGED <<connectionLines, selectedConnection>>
                ELSE LET i == selectedConnection.idx
                     IN /\ i \in DOMAIN connectionLines
                        /\ connectionLines' =
                              [connectionLines EXCEPT
                                  ![i] = ObjectAssign(selectedConnection.obj, updates)]
                        /\ connectionLines'[i].id = connectionLines[i].id
                        /\ connectionLines'[i].start = connectionLines[i].start
                        /\ connectionLines'[i].end = connectionLines[i].end]_vars

\* C23 (as the specification states it): a quote that opens a string with no
\* closing quote on its line gives one string token from the quote to the end
\* of the line.  Here the line begins with the quote and holds that quote
\* character nowhere else.
C23_UnterminatedStringToEndOfLine ==
    (/\ probe # Null /\ probe.kind = "tokens"
     /\ probe.line[1] \in Quotes
     /\ \A i \in 2..Len(probe.line) : probe.line[i] # probe.line[1]) =>
        probe.tokens = <<Token("string", probe.line, 0)>>

\* The documents that are loaded.
C24_Loaded == {f \in Files : codeFiles[f] # NoDoc}

\* C24 (as the specification states it): in every state reachable through
\* load, unload, pointer selection, connect, cancel and delete actions, both
\* ends of every connection of the list are in loaded documents.
C24_EndpointsAreLoaded ==
    \A i \in DOMAIN connectionLines :
        connectionLines[i].kind = "conn" =>
            /\ connectionLines[i].start.fileId \in C24_Loaded
            /\ connectionLines[i].end.fileId \in C24_Loaded

\* C25 (as the specification states it): in every reachable state
\* selectedConnection is null or one of the objects of the connection list.
C25_SelectedConnectionIsListed ==
    selectedConnection # Null =>
        /\ linesKind = "array"
        /\ selectedConnection.idx \in DOMAIN connectionLines

\* C26: in every reachable state isCreatingConnection is true exactly when
\* the anchor selection firstSelection is not null.
C26_CreatingIffAnchor ==
    isCreatingConnection <=> (firstSelection # Null)

\* An anchor is set, and the flag with it, after a connection was created
\* and the creation state cleaned up.
C26_Witness ==
    /\ connectionLines # <<>>
    /\ firstSelection # Null
    /\ isCreatingConnection
    /\ ENABLED (KeyEscape /\ firstSelection' = Null /\ ~isCreatingConnection')

\* C27: in every state reachable after construction through createPane,
\* removePane, setActivePane and movePane, exactly one pane has isActive =
\* true, and it is the pane whose id is activePaneId.
C27_OneActivePane ==
    /\ Cardinality({i \in DOMAIN panes : panes[i].isActive}) = 1
    /\ \A i \in DOMAIN panes : panes[i].isActive <=> (panes[i].id = activePaneId)

\* The pane that was active after construction has been removed and
\* another of the two panes left has been activated since.
C27_Witness ==
    /\ 1 \notin PaneIdsOf(panes)
    /\ Len(panes) = 2
    /\ activePaneId # panes[1].id
    /\ panes[2].isActive

\* The order value of the pane id.
C28_OrderOf(ps, id) == ps[PaneIndex(ps, id)].order

\* C28: with n panes the order values are exactly 0..n-1, each once, after
\* any sequence of createPane, removePane and movePane; movePane(p, k) puts
\* p at index min(max(k, 0), n-1) and keeps the other panes in their
\* relative order.
C28_OrdersAreIndexes ==
    /\ [](/\ {panes[i].order : i \in DOMAIN panes} = 0..(Len(panes) - 1)
          /\ \A i, j \in DOMAIN panes : panes[i].order = panes[j].order => i = j)
    /\ [][\A id \in PaneIds, k \in -1..MaxPanes :
             (id \in PaneIdsOf(panes) /\ CVMovePane(id, k)) =>
                /\ C28_OrderOf(panes', id) = Min(Max(k, 0), Len(panes) - 1)
                /\ \A q, r \in PaneIdsOf(panes) \ {id} :
                      (C28_OrderOf(panes, q) < C28_OrderOf(panes, r))
                         <=> (C28_OrderOf(panes', q) < C28_OrderOf(panes', r))]_vars

\* Among three panes the one created first has been moved to the last index
\* and the one created last to the first.
C28_Witness ==
    /\ Len(panes) = 3
    /\ panes[1].order = 2
    /\ panes[3].order = 0

\* C29 (as the specification states it): after any sequence of loadCodeFile,
\* removeCodeFile and closePane calls each loaded document is attached to at
\* most one pane; loading an id that is loaded already adds no pane.
C29_DocumentInOnePane ==
    \A f \in Files :
        codeFiles[f] # NoDoc =>
            Cardinality({i \in DOMAIN panes : panes[i].fileId = f}) <= 1

\* C30 (as the specification states it): for every pane and layout mode the
\* band in which renderPaneTabs draws the pane's tab is the band in which
\* isPaneTabAt attributes a pointer-down in the tab strip to that pane.
C30_DrawnTabIsHitTab ==
    \A id \in PaneIdsOf(panes) :
        RenderPaneTabs(panes, paneLayouts, canvasWidth, id) # Null =>
            RenderPaneTabs(panes, paneLayouts, canvasWidth, id)
                = IsPaneTabAt(panes, canvasWidth, id)

====
